---- MODULE Spec2Model ----
(***************************************************************************)
(* Student grade management: two roster implementations.                   *)
(*   "json" : StudentManagementSystem (dict keyed by id, students.json)    *)
(*   "line" : student_grade_manager   (list of Student, students.txt)      *)
(* Strings are sequences of one-character strings.  Floats that occur are  *)
(* integral-valued and are represented by their integer value; str() and   *)
(* float() are modelled on the numerals they produce and accept.           *)
(***************************************************************************)
EXTENDS Integers, Sequences, FiniteSets, TLC

\* Number of successful mutations (register / grade input) explored per run.
MaxOps == 2

NL == "\n"
Whitespace == {" ", NL}
Digits == <<"0", "1", "2", "3", "4", "5", "6", "7", "8", "9">>

\* ---------------------------------------------------------------- strings

\* Code point order of the characters that occur.
Ord(c) ==
  CASE c = NL  -> 10
    [] c = " " -> 32
    [] c = "," -> 44
    [] c = "-" -> 45
    [] c = "." -> 46
    [] c = "0" -> 48
    [] c = "1" -> 49
    [] c = "2" -> 50
    [] c = "3" -> 51
    [] c = "4" -> 52
    [] c = "5" -> 53
    [] c = "6" -> 54
    [] c = "7" -> 55
    [] c = "8" -> 56
    [] c = "9" -> 57
    [] c = "A" -> 65
    [] c = "N" -> 78
    [] c = "a" -> 97
    [] c = "n" -> 110
    [] c = "x" -> 120
    [] c = "|" -> 124

\* str.lower()
lower(s) ==
  [i \in 1..Len(s) |-> CASE s[i] = "A" -> "a" [] s[i] = "N" -> "n" [] OTHER -> s[i]]

RECURSIVE lstrip(_)
lstrip(s) == IF s # <<>> /\ Head(s) \in Whitespace THEN lstrip(Tail(s)) ELSE s

RECURSIVE rstrip(_)
rstrip(s) ==
  IF s # <<>> /\ s[Len(s)] \in Whitespace THEN rstrip(SubSeq(s, 1, Len(s) - 1)) ELSE s

\* str.strip()
strip(s) == rstrip(lstrip(s))

\* str.split(sep): n separators give n+1 fields, empty fields kept.
RECURSIVE split(_, _)
split(s, sep) ==
  IF \A i \in 1..Len(s) : s[i] # sep
  THEN <<s>>
  ELSE LET k == CHOOSE i \in 1..Len(s) : s[i] = sep /\ \A j \in 1..(i - 1) : s[j] # sep
       IN  <<SubSeq(s, 1, k - 1)>> \o split(SubSeq(s, k + 1, Len(s)), sep)

\* str.split(): fields are the maximal runs of non-whitespace.
RECURSIVE split_ws(_)
split_ws(s) ==
  LET t == lstrip(s) IN
  IF t = <<>> THEN <<>>
  ELSE IF \A i \in 1..Len(t) : t[i] \notin Whitespace
       THEN <<t>>
       ELSE LET k == CHOOSE i \in 1..Len(t) :
                       t[i] \in Whitespace /\ \A j \in 1..(i - 1) : t[j] \notin Whitespace
            IN  <<SubSeq(t, 1, k - 1)>> \o split_ws(SubSeq(t, k + 1, Len(t)))

\* sep.join(parts)
RECURSIVE join(_, _)
join(sep, parts) ==
  IF parts = <<>> THEN <<>>
  ELSE IF Len(parts) = 1 THEN parts[1]
       ELSE parts[1] \o <<sep>> \o join(sep, Tail(parts))

\* a < b on str (lexicographic by code point)
RECURSIVE str_lt(_, _)
str_lt(a, b) ==
  IF b = <<>> THEN FALSE
  ELSE IF a = <<>> THEN TRUE
  ELSE IF Head(a) = Head(b) THEN str_lt(Tail(a), Tail(b))
  ELSE Ord(Head(a)) < Ord(Head(b))

\* ----------------------------------------------------------------- floats

IsDigit(c) == \E d \in 1..10 : Digits[d] = c
DigitVal(c) == (CHOOSE d \in 1..10 : Digits[d] = c) - 1

RECURSIVE NatOfDigits(_)
NatOfDigits(ds) ==
  IF ds = <<>> THEN 0
  ELSE 10 * NatOfDigits(SubSeq(ds, 1, Len(ds) - 1)) + DigitVal(ds[Len(ds)])

RECURSIVE DigitsOfNat(_)
DigitsOfNat(n) ==
  IF n < 10 THEN <<Digits[n + 1]>> ELSE DigitsOfNat(n \div 10) \o <<Digits[(n % 10) + 1]>>

\* float(text): surrounding whitespace ignored, optional sign, digits,
\* optional fraction (of zeros: the values that occur are integral).
\* ok = FALSE stands for ValueError.
float(text) ==
  LET t    == strip(text)
      neg  == t # <<>> /\ Head(t) = "-"
      u    == IF neg THEN Tail(t) ELSE t
      p    == split(u, ".")
      ip   == p[1]
      good == /\ Len(p) \in {1, 2}
              /\ ip # <<>>
              /\ \A i \in 1..Len(ip) : IsDigit(ip[i])
              /\ Len(p) = 2 => \A i \in 1..Len(p[2]) : p[2][i] = "0"
  IN  IF good
      THEN [ok |-> TRUE, val |-> IF neg THEN 0 - NatOfDigits(ip) ELSE NatOfDigits(ip)]
      ELSE [ok |-> FALSE, val |-> 0]

\* str(x) of an integral float: "100.0", "-1.0"
str(x) ==
  (IF x < 0 THEN <<"-">> ELSE <<>>) \o DigitsOfNat(IF x < 0 THEN 0 - x ELSE x) \o <<".", "0">>

\* ------------------------------------------------------------- the record

\* Student.__init__ (both variants): an absent or empty grades argument
\* gives a fresh empty list.
Student(student_id, name, grades) ==
  [student_id |-> student_id, name |-> name, grades |-> grades]

RECURSIVE SumSeq(_)
SumSeq(s) == IF s = <<>> THEN 0 ELSE Head(s) + SumSeq(Tail(s))

\* Student.calculate_average / Student.average: sum / len, or 0.0 when there
\* are no grades.  The quotient is kept as a fraction with positive den.
calculate_average(s) ==
  IF s.grades = <<>> THEN [num |-> 0, den |-> 1]
  ELSE [num |-> SumSeq(s.grades), den |-> Len(s.grades)]

avg_lt(x, y) == x.num * y.den < y.num * x.den
avg_eq(x, y) == x.num * y.den = y.num * x.den

\* Variant: the new grade replaces the list instead of extending it.
Student_add_grade_overwrite(s, grade) ==
  IF 0 <= grade /\ grade <= 100
  THEN [ok |-> TRUE, student |-> [s EXCEPT !.grades = <<grade>>]]
  ELSE [ok |-> FALSE, student |-> s]

\* Student.add_grade (json variant): ValueError outside [0, 100].
Student_add_grade(s, grade) ==
  IF 0 <= grade /\ grade <= 100
  THEN [ok |-> TRUE, student |-> [s EXCEPT !.grades = Append(@, grade)]]
  ELSE [ok |-> FALSE, student |-> s]

\* ------------------------------------------------- the persisted store
\* kind: "absent" (no file), "unreadable" (open or read raises),
\*       "corrupt" (content json.load rejects), "json" (data = the array of
\*       objects), "text" (data = the characters of students.txt).
Absent     == [kind |-> "absent", data |-> <<>>]
Unreadable == [kind |-> "unreadable", data |-> <<>>]
Corrupt    == [kind |-> "corrupt", data |-> <<>>]

\* ---- line records (student_grade_manager)

to_record(s) ==
  s.student_id \o <<"|">> \o s.name \o <<"|">>
    \o join(",", [i \in 1..Len(s.grades) |-> str(s.grades[i])]) \o <<NL>>

\* ok = FALSE stands for the IndexError / ValueError the caller catches.
from_record(record_line) ==
  LET parts  == split(strip(record_line), "|")
      hasG   == Len(parts) > 2 /\ parts[3] # <<>>
      toks   == IF hasG THEN split(parts[3], ",") ELSE <<>>
      vals   == [i \in 1..Len(toks) |-> float(toks[i])]
  IN  IF Len(parts) < 2 \/ \E i \in 1..Len(vals) : ~vals[i].ok
      THEN [ok |-> FALSE, student |-> Student(<<>>, <<>>, <<>>)]
      ELSE [ok |-> TRUE,
            student |-> Student(parts[1], parts[2], [i \in 1..Len(vals) |-> vals[i].val])]

\* Iterating a text file: each line up to and including its newline.
RECURSIVE file_lines(_)
file_lines(text) ==
  IF text = <<>> THEN <<>>
  ELSE IF \A i \in 1..Len(text) : text[i] # NL
       THEN <<text>>
       ELSE LET k == CHOOSE i \in 1..Len(text) : text[i] = NL /\ \A j \in 1..(i - 1) : text[j] # NL
            IN  <<SubSeq(text, 1, k)>> \o file_lines(SubSeq(text, k + 1, Len(text)))

RECURSIVE load_lines(_)
load_lines(ls) ==
  IF ls = <<>> THEN <<>>
  ELSE LET r == from_record(Head(ls))
       IN  (IF r.ok THEN <<r.student>> ELSE <<>>) \o load_lines(Tail(ls))

\* load_students on a store that can be opened and read.
load_students(f) ==
  IF f.kind = "absent" THEN <<>> ELSE load_lines(file_lines(f.data))

RECURSIVE concat(_)
concat(ss) == IF ss = <<>> THEN <<>> ELSE Head(ss) \o concat(Tail(ss))

save_students(sts) ==
  [kind |-> "text", data |-> concat([i \in 1..Len(sts) |-> to_record(sts[i])])]

\* ---- JSON (StudentManagementSystem)

to_dict(s) == [student_id |-> s.student_id, name |-> s.name, grades |-> s.grades]

\* ok = FALSE stands for KeyError.
from_dict(data) ==
  IF {"student_id", "name", "grades"} \subseteq DOMAIN data
  THEN [ok |-> TRUE, student |-> Student(data.student_id, data.name, data.grades)]
  ELSE [ok |-> FALSE, student |-> Student(<<>>, <<>>, <<>>)]

\* self.students[key] = s : a present key keeps its position.
dict_set(sts, s) ==
  IF \E i \in 1..Len(sts) : sts[i].student_id = s.student_id
  THEN [i \in 1..Len(sts) |-> IF sts[i].student_id = s.student_id THEN s ELSE sts[i]]
  ELSE Append(sts, s)

dict_has(sts, key) == \E i \in 1..Len(sts) : sts[i].student_id = key

\* The loop of load_data: the first item that raises ends the loop, the
\* items before it stay in self.students.
RECURSIVE load_items(_, _)
load_items(acc, items) ==
  IF items = <<>> THEN [students |-> acc, status |-> "loaded"]
  ELSE LET r == from_dict(Head(items))
       IN  IF r.ok THEN load_items(dict_set(acc, r.student), Tail(items))
           ELSE [students |-> acc, status |-> "warning"]

load_data(f) ==
  CASE f.kind = "absent" -> [students |-> <<>>, status |-> "fresh"]
    [] f.kind = "json"   -> load_items(<<>>, f.data)
    [] OTHER             -> [students |-> <<>>, status |-> "warning"]

save_data(sts) ==
  [kind |-> "json", data |-> [i \in 1..Len(sts) |-> to_dict(sts[i])]]

\* ---------------------------------------------------------------- sorting

\* The sort keys: student_id, name.lower(), average.
key_lt(key, x, y) ==
  CASE key = "id"   -> str_lt(x.student_id, y.student_id)
    [] key = "name" -> str_lt(lower(x.name), lower(y.name))
    [] key = "avg"  -> avg_lt(calculate_average(x), calculate_average(y))

reversed(s) == [i \in 1..Len(s) |-> s[Len(s) + 1 - i]]

RECURSIVE insert_sorted(_, _, _)
insert_sorted(s, x, key) ==
  IF s = <<>> THEN <<x>>
  ELSE IF key_lt(key, x, Head(s)) THEN <<x>> \o s
       ELSE <<Head(s)>> \o insert_sorted(Tail(s), x, key)

RECURSIVE sort_asc(_, _)
sort_asc(list, key) ==
  IF list = <<>> THEN <<>>
  ELSE insert_sorted(sort_asc(SubSeq(list, 1, Len(list) - 1), key), list[Len(list)], key)

\* Variant: ascending sort followed by a plain reversal.
list_sort_then_reverse(list, key, reverse) ==
  IF reverse THEN reversed(sort_asc(list, key)) ELSE sort_asc(list, key)

\* list.sort(key=..., reverse=...): stable; with reverse the list is
\* reversed, sorted ascending and reversed again.
list_sort(list, key, reverse) ==
  IF reverse THEN reversed(sort_asc(reversed(list), key)) ELSE sort_asc(list, key)

\* query in s
contains(s, q) ==
  \E k \in 0..(Len(s) - Len(q)) : SubSeq(s, k + 1, k + Len(q)) = q

\* ------------------------------------------------------------------ state

VARIABLES
  impl,      \* which program runs: "json" or "line"
  pc,        \* "start" (before the load), "menu", "exited", "crashed"
  students,  \* the roster, in iteration order (dict values / list)
  file,      \* the persisted store (students.json / students.txt)
  out,       \* what the last operation reported and displayed
  fresh,     \* the session started without a persisted store
  nops       \* successful register / grade operations so far

vars == <<impl, pc, students, file, out, fresh, nops>>

NoOut ==
  [op |-> "none", status |-> "", key |-> "", reverse |-> FALSE, saved |-> "none", res |-> <<>>]

Report(op, status) == [NoOut EXCEPT !.op = op, !.status = status]

\* ----------------------------------------------------------------- inputs

IdInputs    == { <<" ">>, <<"a">>, <<"A">>, <<" ", "a">> }
NameInputs  == { <<>>, <<"n">>, <<"N", "|">> }
\* One grade per prompt (json); several, separated by spaces (line).
GradeInputs  == { <<"0">>, <<"1", "0", "0">>, <<"1", "0", "1">>, <<"-", "1">>, <<"x">> }
GradesInputs == { <<"1", "0", "0", " ", "0">>, <<"1", "0", "1">>, <<"0", " ", "x">> }
QueryInputs == { <<"N">>, <<" ">> }
SortChoices == { "1", "2", "3", "4" }

\* Stores found at the first start.
R1 == Student(<<"a">>, <<"n">>, <<70>>)
R2 == Student(<<"A">>, <<"N">>, <<90>>)
R3 == Student(<<"x">>, <<"n">>, <<100, 60>>)
R4 == Student(<<"x", "x">>, <<"a">>, <<70>>)
NoName == [student_id |-> <<"A">>, grades |-> <<>>]

JsonStores ==
  { Absent, Unreadable, Corrupt,
    [kind |-> "json", data |-> <<to_dict(R1), to_dict(R2), to_dict(R3), to_dict(R4)>>],
    [kind |-> "json", data |-> <<to_dict(R1), NoName, to_dict(R3)>>],
    [kind |-> "json", data |-> <<to_dict(R1), to_dict(R2), to_dict(Student(<<"a">>, <<"N">>, <<>>))>>] }

\* What save_students writes for the roster registered as "a" and " a".
TwoIds ==
  save_students(<<Student(<<"a">>, <<"n">>, <<>>), Student(<<" ", "a">>, <<"n">>, <<100>>)>>)

TextStores ==
  { Absent, Unreadable, TwoIds,
    [kind |-> "text", data |-> to_record(R1) \o to_record(R2) \o to_record(R3) \o to_record(R4)],
    [kind |-> "text",
     data |-> to_record(R1) \o <<"A", NL>> \o <<"x", "|", "N", "|", "x", NL>> \o <<"A", "|", "N">>] }

Init ==
  /\ impl \in {"json", "line"}
  /\ pc = "start"
  /\ students = <<>>
  /\ file \in (IF impl = "json" THEN JsonStores ELSE TextStores)
  /\ out = NoOut
  /\ fresh = FALSE
  /\ nops = 0

\* ------------------------------------------------------------ json variant

\* Variant: success is reported although nothing was written.
SaveData_nothing_written(sts, f) ==
  { [file |-> f, saved |-> "ok"] }

\* save_data with its try/except: the dump succeeds, or open fails (store
\* untouched), or the write fails after the file was truncated.
SaveData(sts, f) ==
  { [file |-> save_data(sts), saved |-> "ok"],
    [file |-> f, saved |-> "failed"],
    [file |-> Corrupt, saved |-> "failed"] }

\* StudentManagementSystem.__init__ -> load_data
JsonLoad ==
  /\ impl = "json" /\ pc = "start"
  /\ LET r == load_data(file) IN
       /\ students' = r.students
       /\ out' = Report("load", r.status)
  /\ pc' = "menu"
  /\ fresh' = (file.kind = "absent")
  /\ UNCHANGED <<impl, file, nops>>

JsonRegisterStudent ==
  /\ impl = "json" /\ pc = "menu" /\ nops < MaxOps
  /\ \E idIn \in IdInputs, nameIn \in NameInputs :
       LET student_id == strip(idIn)
           name       == strip(nameIn)
       IN  IF student_id = <<>>
           THEN /\ out' = Report("register", "empty_id")
                /\ UNCHANGED <<students, file, nops>>
           ELSE IF dict_has(students, student_id)
           THEN /\ out' = Report("register", "duplicate")
                /\ UNCHANGED <<students, file, nops>>
           ELSE IF name = <<>>
           THEN /\ out' = Report("register", "empty_name")
                /\ UNCHANGED <<students, file, nops>>
           ELSE /\ students' = dict_set(students, Student(student_id, name, <<>>))
                /\ \E w \in SaveData(students', file) :
                     /\ file' = w.file
                     /\ out' = [Report("register", "ok") EXCEPT !.saved = w.saved]
                /\ nops' = nops + 1
  /\ UNCHANGED <<impl, pc, fresh>>

JsonAddGrade ==
  /\ impl = "json" /\ pc = "menu" /\ nops < MaxOps
  /\ \E idIn \in IdInputs, gradeIn \in GradeInputs :
       LET student_id == strip(idIn)
           grade      == float(gradeIn)
       IN  IF ~dict_has(students, student_id)
           THEN /\ out' = Report("add_grade", "not_found")
                /\ UNCHANGED <<students, file, nops>>
           ELSE LET i == CHOOSE k \in 1..Len(students) : students[k].student_id = student_id
                    r == Student_add_grade(students[i], grade.val)
                IN  IF ~grade.ok \/ ~r.ok
                    THEN /\ out' = Report("add_grade", "invalid")
                         /\ UNCHANGED <<students, file, nops>>
                    ELSE /\ students' = [students EXCEPT ![i] = r.student]
                         /\ \E w \in SaveData(students', file) :
                              /\ file' = w.file
                              /\ out' = [Report("add_grade", "ok") EXCEPT !.saved = w.saved]
                         /\ nops' = nops + 1
  /\ UNCHANGED <<impl, pc, fresh>>

\* display_performance_report, choice 1 (all students)
JsonDisplayPerformanceReport ==
  /\ impl = "json" /\ pc = "menu"
  /\ out' = IF students = <<>> THEN Report("report", "empty")
            ELSE [Report("report", "ok") EXCEPT !.res = students]
  /\ UNCHANGED <<impl, pc, students, file, fresh, nops>>

JsonSearchStudent ==
  /\ impl = "json" /\ pc = "menu"
  /\ \E q \in QueryInputs :
       LET query == lower(strip(q))
           hit(t) == contains(lower(t.student_id), query) \/ contains(lower(t.name), query)
       IN  out' = IF query = <<>> THEN Report("search", "empty_query")
                  ELSE [Report("search", "ok") EXCEPT !.res = SelectSeq(students, hit)]
  /\ UNCHANGED <<impl, pc, students, file, fresh, nops>>

JsonDisplayAllStudents ==
  /\ impl = "json" /\ pc = "menu"
  /\ out' = IF students = <<>> THEN Report("list", "empty")
            ELSE [Report("list", "ok") EXCEPT !.res = students]
  /\ UNCHANGED <<impl, pc, students, file, fresh, nops>>

\* Variant: the sorted order is written back to the roster.
JsonSortAndDisplay_in_place ==
  /\ impl = "json" /\ pc = "menu"
  /\ \E choice \in SortChoices, reverse \in BOOLEAN :
       LET key == CASE choice = "1" -> "id" [] choice = "2" -> "name"
                    [] choice = "3" -> "avg" [] OTHER -> ""
       IN  IF students = <<>> \/ key = ""
           THEN /\ out' = Report("sort", IF students = <<>> THEN "empty" ELSE "invalid")
                /\ UNCHANGED students
           ELSE /\ students' = list_sort(students, key, reverse)
                /\ out' = [Report("sort", "ok") EXCEPT !.key = key, !.reverse = reverse,
                                                       !.res = students']
  /\ UNCHANGED <<impl, pc, file, fresh, nops>>

JsonSortAndDisplay ==
  /\ impl = "json" /\ pc = "menu"
  /\ \E choice \in SortChoices, reverse \in BOOLEAN :
       LET students_list == students
           key == CASE choice = "1" -> "id" [] choice = "2" -> "name"
                    [] choice = "3" -> "avg" [] OTHER -> ""
       IN  out' = IF students = <<>> THEN Report("sort", "empty")
                  ELSE IF key = "" THEN Report("sort", "invalid")
                  ELSE [Report("sort", "ok") EXCEPT !.key = key, !.reverse = reverse,
                                                    !.res = list_sort(students_list, key, reverse)]
  /\ UNCHANGED <<impl, pc, students, file, fresh, nops>>

\* menu choice 7
JsonExit ==
  /\ impl = "json" /\ pc = "menu"
  /\ pc' = "exited"
  /\ out' = Report("exit", "ok")
  /\ UNCHANGED <<impl, students, file, fresh, nops>>

\* ------------------------------------------------------------ line variant

\* main_menu: students = load_students(), outside any try.
LineLoad ==
  /\ impl = "line" /\ pc = "start"
  /\ IF file.kind = "unreadable"
     THEN /\ pc' = "crashed"
          /\ out' = Report("load", "crash")
          /\ UNCHANGED students
     ELSE /\ pc' = "menu"
          /\ students' = load_students(file)
          /\ out' = Report("load", "ok")
  /\ fresh' = (file.kind = "absent")
  /\ UNCHANGED <<impl, file, nops>>

LineRegisterStudent ==
  /\ impl = "line" /\ pc = "menu" /\ nops < MaxOps
  /\ \E sid \in IdInputs, name \in NameInputs :
       IF \E i \in 1..Len(students) : students[i].student_id = sid
       THEN /\ out' = Report("register", "duplicate")
            /\ UNCHANGED <<students, nops>>
       ELSE /\ students' = Append(students, Student(sid, name, <<>>))
            /\ out' = Report("register", "ok")
            /\ nops' = nops + 1
  /\ UNCHANGED <<impl, pc, file, fresh>>

LineInputGrades ==
  /\ impl = "line" /\ pc = "menu" /\ nops < MaxOps
  /\ \E sid \in IdInputs, grades_str \in GradesInputs :
       IF ~\E i \in 1..Len(students) : students[i].student_id = sid
       THEN /\ out' = Report("add_grade", "not_found")
            /\ UNCHANGED <<students, nops>>
       ELSE LET i      == CHOOSE k \in 1..Len(students) :
                            /\ students[k].student_id = sid
                            /\ \A j \in 1..(k - 1) : students[j].student_id # sid
                toks   == split_ws(strip(grades_str))
                vals   == [k \in 1..Len(toks) |-> float(toks[k])]
                grades == [k \in 1..Len(toks) |-> vals[k].val]
            IN  IF \E k \in 1..Len(vals) : ~vals[k].ok
                THEN /\ out' = Report("add_grade", "invalid")
                     /\ UNCHANGED <<students, nops>>
                ELSE /\ students' = [students EXCEPT ![i].grades = @ \o grades]
                     /\ out' = Report("add_grade", "ok")
                     /\ nops' = nops + 1
  /\ UNCHANGED <<impl, pc, file, fresh>>

LineDisplayReport ==
  /\ impl = "line" /\ pc = "menu"
  /\ out' = IF students = <<>> THEN Report("report", "empty")
            ELSE [Report("report", "ok") EXCEPT !.res = students]
  /\ UNCHANGED <<impl, pc, students, file, fresh, nops>>

LineSearchStudent ==
  /\ impl = "line" /\ pc = "menu"
  /\ \E q \in QueryInputs :
       LET name   == lower(q)
           hit(t) == contains(lower(t.name), name)
       IN  out' = [Report("search", "ok") EXCEPT !.res = SelectSeq(students, hit)]
  /\ UNCHANGED <<impl, pc, students, file, fresh, nops>>

\* students.sort(...): the roster list itself is sorted.
LineSortStudents ==
  /\ impl = "line" /\ pc = "menu"
  /\ \E choice \in SortChoices :
       IF choice = "1"
       THEN /\ students' = list_sort(students, "name", FALSE)
            /\ out' = [Report("sort", "ok") EXCEPT !.key = "name"]
       ELSE IF choice = "2"
       THEN /\ students' = list_sort(students, "avg", TRUE)
            /\ out' = [Report("sort", "ok") EXCEPT !.key = "avg", !.reverse = TRUE]
       ELSE /\ out' = Report("sort", "invalid")
            /\ UNCHANGED students
  /\ UNCHANGED <<impl, pc, file, fresh, nops>>

\* menu choice 6: save_students, then break; when open() raises (store
\* untouched) or a write raises (file already truncated), the menu loop
\* catches the exception and goes on.
LineSaveAndExit ==
  /\ impl = "line" /\ pc = "menu"
  /\ \/ /\ file' = save_students(students)
        /\ pc' = "exited"
        /\ out' = [Report("exit", "ok") EXCEPT !.saved = "ok"]
     \/ /\ file' \in {file, [kind |-> "text", data |-> <<>>]}
        /\ pc' = "menu"
        /\ out' = [Report("exit", "error") EXCEPT !.saved = "failed"]
  /\ UNCHANGED <<impl, students, fresh, nops>>

Next ==
  \/ JsonLoad
  \/ JsonRegisterStudent
  \/ JsonAddGrade
  \/ JsonDisplayPerformanceReport
  \/ JsonSearchStudent
  \/ JsonDisplayAllStudents
  \/ JsonSortAndDisplay
  \/ JsonExit
  \/ LineLoad
  \/ LineRegisterStudent
  \/ LineInputGrades
  \/ LineDisplayReport
  \/ LineSearchStudent
  \/ LineSortStudents
  \/ LineSaveAndExit

Spec == Init /\ [][Next]_vars

\* ----------------------------------------------------------------- claims

InRange(g) == 0 <= g /\ g <= 100

Count(s, r) == Cardinality({k \in 1..Len(s) : s[k] = r})

\* b holds the records of a, each as often, in some order.
SameRecords(a, b) ==
  /\ Len(a) = Len(b)
  /\ \A i \in 1..Len(a) : Count(a, a[i]) = Count(b, a[i])

\* The text of one student's line and of a roster's file.
LineOf(s) ==
  s.student_id \o <<"|">> \o s.name \o <<"|">>
    \o join(",", [k \in 1..Len(s.grades) |-> str(s.grades[k])]) \o <<NL>>

RECURSIVE TextOf(_)
TextOf(sts) == IF sts = <<>> THEN <<>> ELSE LineOf(Head(sts)) \o TextOf(Tail(sts))

\* The store holds the roster: same ids, names and grade sequences, in order.
StoreHoldsRoster ==
  IF impl = "json"
  THEN /\ file.kind = "json"
       /\ Len(file.data) = Len(students)
       /\ \A i \in 1..Len(students) :
            file.data[i] = [student_id |-> students[i].student_id,
                            name |-> students[i].name,
                            grades |-> students[i].grades]
  ELSE /\ file.kind = "text"
       /\ file.data = TextOf(students)

MutationDone == pc = "menu" /\ out.op \in {"register", "add_grade"} /\ out.status = "ok"

\* C1: in every state reached by loading the store and applying menu
\* operations, no two records of the roster share an id.
C1_UniqueIds ==
  pc = "menu" =>
    \A i, j \in 1..Len(students) : i # j => students[i].student_id # students[j].student_id

\* C2: after any sequence of register and add-grade operations that started
\* from an empty roster, every stored grade lies in [0, 100].
C2_StoredGradesInRange ==
  (fresh /\ pc = "menu") =>
    \A i \in 1..Len(students) : \A k \in 1..Len(students[i].grades) :
      InRange(students[i].grades[k])

C4_RoundTrip ==
  (fresh /\ pc = "menu") =>
    IF impl = "json"
    THEN load_data(save_data(students)).students = students
    ELSE load_students(save_students(students)) = students

\* C5: a load skips exactly the malformed entries of the store: the ids of
\* the roster are the ids of the well-formed entries, and every record of
\* the roster is one of them.
WellFormedEntries ==
  IF impl = "json"
  THEN { from_dict(file.data[k]).student :
           k \in {n \in 1..Len(file.data) : from_dict(file.data[n]).ok} }
  ELSE LET ls == file_lines(file.data)
       IN  { from_record(ls[k]).student : k \in {n \in 1..Len(ls) : from_record(ls[n]).ok} }

C5_LoadSkipsMalformed ==
  (pc = "menu" /\ out.op = "load" /\ file.kind \in {"json", "text"}) =>
    /\ {students[i].student_id : i \in 1..Len(students)}
         = {e.student_id : e \in WellFormedEntries}
    /\ \A i \in 1..Len(students) : students[i] \in WellFormedEntries

\* C6: load never aborts the process, and the roster is empty when the store
\* is absent and when the load reported a failure.
C6_LoadNeverAborts ==
  /\ pc # "crashed"
  /\ (out.op = "load" /\ (file.kind = "absent" \/ out.status = "warning")) => students = <<>>

\* C7 (as stated): a sort leaves the roster as it was, order included.
C7_SortLeavesRoster ==
  [][out'.op = "sort" => students' = students]_vars

\* C7 (amended): a sort never changes the store nor any record; in the json
\* variant it leaves the roster as it was, in the line variant it reorders
\* the roster list itself, which keeps the same records.
C7_SortKeepsRecords ==
  [][out'.op = "sort" =>
       /\ file' = file
       /\ impl = "json" => students' = students
       /\ impl = "line" => SameRecords(students, students')]_vars

C7_Witness ==
  /\ impl = "line" /\ pc = "menu" /\ out.op = "sort" /\ out.status = "ok"
  /\ nops = 0 /\ file.kind = "text"
  /\ Len(students) >= 3
  /\ students # load_students(file)

\* C8: no roster built by register operations holds a record whose id or
\* name is empty or whitespace-only.
C8_NoEmptyIdOrName ==
  (fresh /\ pc = "menu") =>
    \A i \in 1..Len(students) :
      strip(students[i].student_id) # <<>> /\ strip(students[i].name) # <<>>

\* C9: sorting by average, descending, gives all records of the roster,
\* each once, in non-increasing order of average, records of equal average
\* in the relative order they had in the roster.
SameAverage(r, t) == avg_eq(calculate_average(r), calculate_average(t))

StableDescendingByAverage(before, after) ==
  /\ SameRecords(before, after)
  /\ \A i \in 1..(Len(after) - 1) :
       ~avg_lt(calculate_average(after[i]), calculate_average(after[i + 1]))
  /\ \A i \in 1..Len(before) :
       LET same(t) == SameAverage(before[i], t)
       IN  SelectSeq(after, same) = SelectSeq(before, same)

C9_SortByAverageDescending ==
  [][(out'.op = "sort" /\ out'.status = "ok" /\ out'.key = "avg" /\ out'.reverse) =>
       StableDescendingByAverage(students, IF impl = "line" THEN students' ELSE out'.res)]_vars

C9_Witness ==
  /\ impl = "json" /\ out.op = "sort" /\ out.status = "ok" /\ out.key = "avg" /\ out.reverse
  /\ out.res # students
  /\ \E i, j, k \in 1..Len(out.res) :
       /\ avg_lt(calculate_average(out.res[j]), calculate_average(out.res[i]))
       /\ avg_lt(calculate_average(out.res[k]), calculate_average(out.res[j]))
  /\ \E i, j \in 1..Len(out.res) :
       i # j /\ SameAverage(out.res[i], out.res[j]) /\ out.res[i] # out.res[j]

\* C10: once the load has finished no menu operation removes a record,
\* changes an id or a name, or removes or reorders stored grades: every
\* record of a state is found in the next state with the same id, the same
\* name and its grades as a prefix of the later grades.
Grows(r, t) ==
  /\ r.student_id = t.student_id
  /\ r.name = t.name
  /\ Len(r.grades) <= Len(t.grades)
  /\ SubSeq(t.grades, 1, Len(r.grades)) = r.grades

RECURSIVE Matched(_, _, _, _)
Matched(a, b, i, used) ==
  \/ i > Len(a)
  \/ \E j \in (1..Len(b)) \ used : Grows(a[i], b[j]) /\ Matched(a, b, i + 1, used \cup {j})

C10_AppendOnly ==
  [][pc = "menu" => Matched(students, students', 1, {})]_vars

C10_Witness ==
  /\ impl = "line" /\ pc = "menu" /\ out.op = "sort" /\ out.status = "ok"
  /\ Len(students) >= 4
  /\ \E i \in 1..Len(students) : Len(students[i].grades) >= 3

====
